---- MODULE Spec2Model ----
\* Model of api/email-notification.js: a serverless HTTP handler that relays a
\* website event to one fixed recipient through a shared SMTP transporter.
\*
\* Text is modelled as a sequence of fragments: a template literal is the
\* sequence of its literal chunks and of the string conversions of the values
\* it interpolates, and concatenation is \o.  A text "contains" a phrase when
\* the phrase is one of its fragments; literals are cut at the phrases the
\* properties below talk about.
EXTENDS Integers, Sequences, FiniteSets

\* Number of handler invocations (concurrent or sequential) that are modelled.
NumRequests == 2

Requests == 1..NumRequests

------------------------------------------------------------------------------
\* JavaScript values that can occur in the environment and in a JSON payload.

\* A value is a record [t, v]: t is its type and v the text JavaScript's
\* string conversion gives for it, where the type does not fix that text.
Undefined == [t |-> "undefined", v |-> ""]
Null == [t |-> "null", v |-> ""]
Str(s) == [t |-> "string", v |-> s]
\* A JSON number, given by its decimal text (String(42) is "42").
Num(digits) == [t |-> "number", v |-> digits]
\* A JSON boolean, given by its text ("true" or "false").
Bool(word) == [t |-> "boolean", v |-> word]
\* A nested JSON object with the inherited toString, such as {"a":1}.
PlainObject == [t |-> "object", v |-> "[object Object]"]
\* A nested JSON object with an own, non-callable toString, such as
\* {"toString":null}: converting it to a string throws a TypeError.
Unconvertible == [t |-> "unconvertible", v |-> ""]

\* JavaScript truthiness: undefined, null, "", 0 and false are falsy; every
\* object is truthy.
Truthy(x) ==
  IF x.t = "string" THEN x.v # ""
  ELSE IF x.t = "number" THEN x.v # "0"
  ELSE IF x.t = "boolean" THEN x.v = "true"
  ELSE x.t \in {"object", "unconvertible"}

\* Whether template-literal interpolation of x completes without throwing.
Convertible(x) == x.t # "unconvertible"

\* String conversion performed by template-literal interpolation.
Interpolate(x) ==
  IF x.t = "undefined" THEN "undefined"
  ELSE IF x.t = "null" THEN "null"
  ELSE x.v

\* Property names a payload may carry: the ten the handler destructures, and
\* two (event, loginType) that it never reads.
Fields ==
  {"eventType", "timestamp", "page", "userId", "userAgent", "clientIp",
   "referrer", "screenResolution", "browserLanguage", "platform",
   "event", "loginType"}

\* An object payload: every property the record does not carry reads undefined.
Obj(rec) == [f \in Fields |-> IF f \in DOMAIN rec THEN rec[f] ELSE Undefined]

NoFields == [f \in Fields |-> Undefined]

\* req.body as the platform hands it over:
\*   invalid_json  reading req.body throws (the body is not decodable)
\*   undefined     no body was sent
\*   null          the body is the JSON text null
\*   string, number, array   the body is a JSON value of that type; it has
\*                 none of the properties the handler reads
\*   object        the body is a JSON object
BodyInvalidJson == [kind |-> "invalid_json", fields |-> NoFields]
BodyUndefined == [kind |-> "undefined", fields |-> NoFields]
BodyNull == [kind |-> "null", fields |-> NoFields]
BodyString == [kind |-> "string", fields |-> NoFields]
BodyNumber == [kind |-> "number", fields |-> NoFields]
BodyArray == [kind |-> "array", fields |-> NoFields]
BodyObject(rec) == [kind |-> "object", fields |-> Obj(rec)]

FirstVisitBody ==
  BodyObject([eventType |-> Str("first_time_website_visit"), page |-> Str("/home"),
              timestamp |-> Str("T1"), userId |-> Str("u1")])
ReturningVisitBody ==
  BodyObject([eventType |-> Str("returning_website_visit"), page |-> Str("/jobs"),
              referrer |-> Null])
CustomEventBody == BodyObject([eventType |-> Str("signup_click")])
EmptyEventBody == BodyObject([eventType |-> Str("")])
EmptyObjectBody == BodyObject([timestamp |-> Str("T2")])
LoginBody ==
  BodyObject([event |-> Str("user_login"), userId |-> Str("u2"),
              loginType |-> Str("oauth")])

NullEventBody == BodyObject([eventType |-> Null, page |-> Str("/home")])
ZeroEventBody == BodyObject([eventType |-> Num("0")])
NumberEventBody == BodyObject([eventType |-> Num("42"), page |-> Bool("false")])
ObjectEventBody == BodyObject([eventType |-> PlainObject])
UnconvertibleEventBody == BodyObject([eventType |-> Unconvertible])
UnconvertiblePageBody ==
  BodyObject([eventType |-> Str("first_time_website_visit"), page |-> Unconvertible])
\* The value that cannot be converted sits in a property the handler never reads.
UnconvertibleLoginTypeBody ==
  BodyObject([eventType |-> Str("returning_website_visit"), loginType |-> Unconvertible])

Bodies ==
  {BodyInvalidJson, BodyUndefined, BodyNull, BodyString, BodyNumber, BodyArray,
   FirstVisitBody, ReturningVisitBody, CustomEventBody, EmptyEventBody,
   EmptyObjectBody, LoginBody, NullEventBody, ZeroEventBody, NumberEventBody,
   ObjectEventBody, UnconvertibleEventBody, UnconvertiblePageBody,
   UnconvertibleLoginTypeBody}

\* Bodies sent with the methods whose branches never look at the body.
OtherMethodBodies == {BodyInvalidJson, BodyNull, FirstVisitBody, UnconvertiblePageBody}

Methods == {"OPTIONS", "POST", "GET"}

\* The requests considered: every body with POST, a few with the other methods.
Inputs ==
  {[method |-> "POST", body |-> b] : b \in Bodies} \cup
  {[method |-> m, body |-> b] : m \in Methods \ {"POST"}, b \in OtherMethodBodies}

\* A body is JSON-decodable when the platform could parse it.
JsonDecodable(b) == b.kind \notin {"invalid_json", "undefined"}

\* Destructuring req.body throws when reading the body throws, or when the
\* body is undefined or null; every other value can be destructured.
Destructurable(b) == b.kind \notin {"invalid_json", "undefined", "null"}

------------------------------------------------------------------------------
\* Process environment: the five configuration values.

ConfigNames == {"EMAIL_USER", "EMAIL_PASS", "EMAIL_HOST", "EMAIL_PORT", "RECIPIENT_EMAIL"}

CompleteConfig ==
  [EMAIL_USER |-> Str("notifier@seku.example"),
   EMAIL_PASS |-> Str("app-password"),
   EMAIL_HOST |-> Str("smtp.gmail.com"),
   EMAIL_PORT |-> Str("587"),
   RECIPIENT_EMAIL |-> Str("owner@seku.example")]

\* The environments considered: complete, or with exactly one value absent.
Configs ==
  {CompleteConfig} \cup {[CompleteConfig EXCEPT ![n] = Undefined] : n \in ConfigNames}

\* nodemailer.createTransport, called once when the module is loaded.
CreateTransport(cfg) ==
  [host |-> cfg.EMAIL_HOST, port |-> cfg.EMAIL_PORT, secure |-> FALSE,
   auth |-> [user |-> cfg.EMAIL_USER, pass |-> cfg.EMAIL_PASS]]

\* Faulty variant of ConfigComplete: the recipient is not validated.
ConfigCompleteNoRecipient(cfg) ==
  /\ Truthy(cfg.EMAIL_USER)
  /\ Truthy(cfg.EMAIL_PASS)
  /\ Truthy(cfg.EMAIL_HOST)
  /\ Truthy(cfg.EMAIL_PORT)

\* The guard of the environment-variable validation, negated.
ConfigComplete(cfg) ==
  /\ Truthy(cfg.EMAIL_USER)
  /\ Truthy(cfg.EMAIL_PASS)
  /\ Truthy(cfg.EMAIL_HOST)
  /\ Truthy(cfg.EMAIL_PORT)
  /\ Truthy(cfg.RECIPIENT_EMAIL)

------------------------------------------------------------------------------
\* Classification and rendering.

Contains(text, phrase) == \E i \in 1..Len(text) : text[i] = phrase

\* The values the subject and the body interpolate: eventType in the generic
\* branch when it is truthy, and the nine detail lines.
Interpolated(p) ==
  {p[f] : f \in {"timestamp", "page", "userId", "clientIp", "referrer",
                 "screenResolution", "browserLanguage", "platform", "userAgent"}}
  \cup (IF /\ p["eventType"] # Str("first_time_website_visit")
            /\ p["eventType"] # Str("returning_website_visit")
            /\ Truthy(p["eventType"])
         THEN {p["eventType"]} ELSE {})

\* Rendering the subject and the body completes without throwing.
Renders(p) == \A x \in Interpolated(p) : Convertible(x)

\* Faulty variant of Subject: the generic branch does not interpolate eventType.
SubjectNoInterpolation(eventType) ==
  IF eventType = Str("first_time_website_visit")
  THEN <<"NEW Visitor Alert: ", "First-Time Visit", " to SEKU Hub!">>
  ELSE IF eventType = Str("returning_website_visit")
  THEN <<"Returning Visitor", ": SEKU Hub Activity Detected">>
  ELSE <<"Website Activity: ", "Unknown", " Event">>

\* Subject line chosen from eventType.
Subject(eventType) ==
  IF eventType = Str("first_time_website_visit")
  THEN <<"NEW Visitor Alert: ", "First-Time Visit", " to SEKU Hub!">>
  ELSE IF eventType = Str("returning_website_visit")
  THEN <<"Returning Visitor", ": SEKU Hub Activity Detected">>
  ELSE <<"Website Activity: ">> \o
       (IF Truthy(eventType) THEN <<Interpolate(eventType)>> ELSE <<"Unknown", " Event">>)

\* Opening sentence of the body chosen from eventType.
EventDescription(eventType) ==
  IF eventType = Str("first_time_website_visit")
  THEN <<"A new, first-time visitor has landed on your SEKU Opportunities Hub website.">>
  ELSE IF eventType = Str("returning_website_visit")
  THEN <<"A returning visitor has accessed your SEKU Opportunities Hub website.">>
  ELSE <<"An event of type '">> \o
       (IF Truthy(eventType) THEN <<Interpolate(eventType)>> ELSE <<"Unknown">>) \o
       <<"' occurred on your website.">>

\* Faulty variant of Body: the User ID line prints the user agent.
BodyUserAgentForUserId(p) ==
  <<"Hello,">> \o EventDescription(p["eventType"]) \o
  <<"--- Visit Details ---",
    "Timestamp: ", Interpolate(p["timestamp"]),
    "Page Visited: ", Interpolate(p["page"]),
    "User ID (Firebase Anonymous): ", Interpolate(p["userAgent"]),
    "Client IP: ", Interpolate(p["clientIp"]),
    "Referrer: ", Interpolate(p["referrer"]),
    "Screen Resolution: ", Interpolate(p["screenResolution"]),
    "Browser Language: ", Interpolate(p["browserLanguage"]),
    "Platform: ", Interpolate(p["platform"]),
    "User Agent: ", Interpolate(p["userAgent"]),
    "This notification was sent from your Vercel Serverless Function.">>

\* The plain-text body: every destructured value is printed as received.
Body(p) ==
  <<"Hello,">> \o EventDescription(p["eventType"]) \o
  <<"--- Visit Details ---",
    "Timestamp: ", Interpolate(p["timestamp"]),
    "Page Visited: ", Interpolate(p["page"]),
    "User ID (Firebase Anonymous): ", Interpolate(p["userId"]),
    "Client IP: ", Interpolate(p["clientIp"]),
    "Referrer: ", Interpolate(p["referrer"]),
    "Screen Resolution: ", Interpolate(p["screenResolution"]),
    "Browser Language: ", Interpolate(p["browserLanguage"]),
    "Platform: ", Interpolate(p["platform"]),
    "User Agent: ", Interpolate(p["userAgent"]),
    "This notification was sent from your Vercel Serverless Function.">>

\* Faulty variant of MailOptions: the message is addressed to the sender.
MailOptionsToSender(cfg, p) ==
  [from |-> cfg.EMAIL_USER, to |-> cfg.EMAIL_USER,
   subject |-> Subject(p["eventType"]), text |-> Body(p)]

\* The options object handed to transporter.sendMail.
MailOptions(cfg, p) ==
  [from |-> cfg.EMAIL_USER, to |-> cfg.RECIPIENT_EMAIL,
   subject |-> Subject(p["eventType"]), text |-> Body(p)]

------------------------------------------------------------------------------
\* Responses.

\* Faulty variant of CorsHeaders: the preflight cache lifetime is not set.
CorsHeadersNoMaxAge ==
  {<<"Access-Control-Allow-Origin", "*">>,
   <<"Access-Control-Allow-Methods", "POST, OPTIONS">>,
   <<"Access-Control-Allow-Headers", "Content-Type, X-Requested-With">>}

\* The four headers set at the top of the handler.
CorsHeaders ==
  {<<"Access-Control-Allow-Origin", "*">>,
   <<"Access-Control-Allow-Methods", "POST, OPTIONS">>,
   <<"Access-Control-Allow-Headers", "Content-Type, X-Requested-With">>,
   <<"Access-Control-Max-Age", "86400">>}

\* res.status(204).end(): no body.
EmptyBody == [kind |-> "empty", status |-> "", message |-> <<>>]

\* res.status(..).json({status, message}).
Json(st, msg) == [kind |-> "json", status |-> st, message |-> msg]

MethodNotAllowedBody ==
  Json("error", <<"Method Not Allowed. Only POST requests are accepted.">>)

ConfigErrorBody ==
  Json("error", <<"Server configuration error: Email credentials missing.">>)

SuccessBody == Json("success", <<"Email notification sent successfully.">>)

\* Faulty variant of FailureBody: the caught error is echoed to the caller.
FailureBodyLeaking(error) ==
  Json("error", <<"Failed to send email notification: ", error>>)

\* The body sent from the catch block; the caught error is only logged.
FailureBody(error) ==
  Json("error", <<"Failed to send email notification. Please check server logs for details.">>)

\* Errors the try block can raise.
InvalidJsonError == "Invalid JSON"
ConversionError == "TypeError: Cannot convert object to primitive value"
DestructureError == "TypeError: Cannot destructure property 'eventType' of 'req.body'"
TransportErrors ==
  {"connect ECONNREFUSED smtp.gmail.com:587", "Invalid login: 535 Authentication failed"}

\* What reading and destructuring req.body throws for a body that is no object.
BodyError(b) == IF b.kind = "invalid_json" THEN InvalidJsonError ELSE DestructureError

------------------------------------------------------------------------------
\* State.

VARIABLES
  config,         \* the five environment values, read when the module is loaded
  transporter,    \* the shared transporter created when the module is loaded
  req,            \* req[r]: method and body of invocation r
  pc,             \* pc[r]: "idle", "running", "awaiting" (suspended at await), "done"
  resHeaders,     \* resHeaders[r]: headers set on res so far
  responses,      \* responses[r]: the responses emitted on res, in order
  sendMailCalls,  \* sendMailCalls[r]: the options of each sendMail call made by r
  sendOutcome,    \* sendOutcome[r]: "none", "pending", "resolved", "rejected"
  bodyRead,       \* bodyRead[r]: req.body has been read
  caught,         \* caught[r]: the errors the catch block logged
  escaped         \* escaped[r]: an exception left the handler

vars ==
  <<config, transporter, req, pc, resHeaders, responses, sendMailCalls,
    sendOutcome, bodyRead, caught, escaped>>

NoRequest == [method |-> "", body |-> BodyUndefined]

Init ==
  /\ config \in Configs
  /\ transporter = CreateTransport(config)
  /\ req = [r \in Requests |-> NoRequest]
  /\ pc = [r \in Requests |-> "idle"]
  /\ resHeaders = [r \in Requests |-> {}]
  /\ responses = [r \in Requests |-> <<>>]
  /\ sendMailCalls = [r \in Requests |-> <<>>]
  /\ sendOutcome = [r \in Requests |-> "none"]
  /\ bodyRead = [r \in Requests |-> FALSE]
  /\ caught = [r \in Requests |-> <<>>]
  /\ escaped = [r \in Requests |-> FALSE]

\* res.status(status).json(body) / .end(): the response carries the headers set so far.
Emit(r, status, body) ==
  responses' =
    [responses EXCEPT ![r] = Append(@, [status |-> status, headers |-> resHeaders[r], body |-> body])]

\* The platform invokes the handler; the handler sets the CORS headers.
Invoke(r) ==
  /\ pc[r] = "idle"
  /\ \E input \in Inputs : req' = [req EXCEPT ![r] = input]
  /\ resHeaders' = [resHeaders EXCEPT ![r] = CorsHeaders]
  /\ pc' = [pc EXCEPT ![r] = "running"]
  /\ UNCHANGED <<config, transporter, responses, sendMailCalls, sendOutcome, bodyRead,
                 caught, escaped>>

\* Faulty variant of Preflight: the configuration is validated before the
\* preflight is answered.
PreflightAfterConfigCheck(r) ==
  /\ pc[r] = "running"
  /\ req[r].method = "OPTIONS"
  /\ IF ConfigComplete(config)
     THEN Emit(r, 204, EmptyBody)
     ELSE Emit(r, 500, ConfigErrorBody)
  /\ pc' = [pc EXCEPT ![r] = "done"]
  /\ UNCHANGED <<config, transporter, req, resHeaders, sendMailCalls, sendOutcome,
                 bodyRead, caught, escaped>>

\* if (req.method === 'OPTIONS') { res.status(204).end(); return; }
Preflight(r) ==
  /\ pc[r] = "running"
  /\ req[r].method = "OPTIONS"
  /\ Emit(r, 204, EmptyBody)
  /\ pc' = [pc EXCEPT ![r] = "done"]
  /\ UNCHANGED <<config, transporter, req, resHeaders, sendMailCalls, sendOutcome,
                 bodyRead, caught, escaped>>

\* Faulty variant of MethodNotAllowed: the configuration is validated before
\* the method.
MethodNotAllowedAfterConfigCheck(r) ==
  /\ pc[r] = "running"
  /\ req[r].method # "OPTIONS"
  /\ req[r].method # "POST"
  /\ IF ConfigComplete(config)
     THEN Emit(r, 405, MethodNotAllowedBody)
     ELSE Emit(r, 500, ConfigErrorBody)
  /\ pc' = [pc EXCEPT ![r] = "done"]
  /\ UNCHANGED <<config, transporter, req, resHeaders, sendMailCalls, sendOutcome,
                 bodyRead, caught, escaped>>

\* if (req.method !== 'POST') return res.status(405).json(..)
MethodNotAllowed(r) ==
  /\ pc[r] = "running"
  /\ req[r].method # "OPTIONS"
  /\ req[r].method # "POST"
  /\ Emit(r, 405, MethodNotAllowedBody)
  /\ pc' = [pc EXCEPT ![r] = "done"]
  /\ UNCHANGED <<config, transporter, req, resHeaders, sendMailCalls, sendOutcome,
                 bodyRead, caught, escaped>>

\* if (!EMAIL_USER || ...) return res.status(500).json(..)
ConfigurationError(r) ==
  /\ pc[r] = "running"
  /\ req[r].method = "POST"
  /\ ~ConfigComplete(config)
  /\ Emit(r, 500, ConfigErrorBody)
  /\ pc' = [pc EXCEPT ![r] = "done"]
  /\ UNCHANGED <<config, transporter, req, resHeaders, sendMailCalls, sendOutcome,
                 bodyRead, caught, escaped>>

\* catch (error) { console.error(.., error); return res.status(500).json(..) }
HandleError(r, error) ==
  /\ caught' = [caught EXCEPT ![r] = Append(@, error)]
  /\ Emit(r, 500, FailureBody(error))
  /\ pc' = [pc EXCEPT ![r] = "done"]
  /\ UNCHANGED escaped

\* Reading or destructuring req.body throws inside the try block.
ParseFailure(r) ==
  /\ pc[r] = "running"
  /\ req[r].method = "POST"
  /\ ConfigComplete(config)
  /\ ~Destructurable(req[r].body)
  /\ bodyRead' = [bodyRead EXCEPT ![r] = TRUE]
  /\ HandleError(r, BodyError(req[r].body))
  /\ UNCHANGED <<config, transporter, req, resHeaders, sendMailCalls, sendOutcome>>

\* Faulty variant of SendMail: a message identical to one already handed over
\* by another invocation is dropped.
SendMailDeduplicated(calls, r, mailOptions) ==
  IF \E q \in Requests : \E i \in 1..Len(calls[q]) : calls[q][i] = mailOptions
  THEN calls
  ELSE [calls EXCEPT ![r] = Append(@, mailOptions)]

\* The body is destructured, but a template literal throws while converting
\* one of the values it interpolates.
RenderFailure(r) ==
  /\ pc[r] = "running"
  /\ req[r].method = "POST"
  /\ ConfigComplete(config)
  /\ Destructurable(req[r].body)
  /\ ~Renders(req[r].body.fields)
  /\ bodyRead' = [bodyRead EXCEPT ![r] = TRUE]
  /\ HandleError(r, ConversionError)
  /\ UNCHANGED <<config, transporter, req, resHeaders, sendMailCalls, sendOutcome>>

\* transporter.sendMail(mailOptions): one more call recorded for invocation r.
SendMail(calls, r, mailOptions) == [calls EXCEPT ![r] = Append(@, mailOptions)]

\* Faulty variant of Send: the promise is not awaited, the handler answers 200
\* at once.
SendWithoutAwait(r) ==
  /\ pc[r] = "running"
  /\ req[r].method = "POST"
  /\ ConfigComplete(config)
  /\ Destructurable(req[r].body)
  /\ Renders(req[r].body.fields)
  /\ bodyRead' = [bodyRead EXCEPT ![r] = TRUE]
  /\ sendMailCalls' = SendMail(sendMailCalls, r, MailOptions(config, req[r].body.fields))
  /\ sendOutcome' = [sendOutcome EXCEPT ![r] = "pending"]
  /\ Emit(r, 200, SuccessBody)
  /\ pc' = [pc EXCEPT ![r] = "done"]
  /\ UNCHANGED <<config, transporter, req, resHeaders, caught, escaped>>

\* The try block up to the await: destructure, classify, render, call sendMail
\* and suspend until the returned promise settles.
Send(r) ==
  /\ pc[r] = "running"
  /\ req[r].method = "POST"
  /\ ConfigComplete(config)
  /\ Destructurable(req[r].body)
  /\ Renders(req[r].body.fields)
  /\ bodyRead' = [bodyRead EXCEPT ![r] = TRUE]
  /\ sendMailCalls' = SendMail(sendMailCalls, r, MailOptions(config, req[r].body.fields))
  /\ sendOutcome' = [sendOutcome EXCEPT ![r] = "pending"]
  /\ pc' = [pc EXCEPT ![r] = "awaiting"]
  /\ UNCHANGED <<config, transporter, req, resHeaders, responses, caught, escaped>>

\* The promise fulfils: the handler resumes after the await and answers 200.
SendResolved(r) ==
  /\ pc[r] = "awaiting"
  /\ sendOutcome[r] = "pending"
  /\ sendOutcome' = [sendOutcome EXCEPT ![r] = "resolved"]
  /\ Emit(r, 200, SuccessBody)
  /\ pc' = [pc EXCEPT ![r] = "done"]
  /\ UNCHANGED <<config, transporter, req, resHeaders, sendMailCalls, bodyRead,
                 caught, escaped>>

\* The promise rejects: the await throws into the catch block.
SendRejected(r) ==
  /\ pc[r] = "awaiting"
  /\ sendOutcome[r] = "pending"
  /\ sendOutcome' = [sendOutcome EXCEPT ![r] = "rejected"]
  /\ \E error \in TransportErrors : HandleError(r, error)
  /\ UNCHANGED <<config, transporter, req, resHeaders, sendMailCalls, bodyRead>>

Next ==
  \E r \in Requests :
    \/ Invoke(r)
    \/ Preflight(r)
    \/ MethodNotAllowed(r)
    \/ ConfigurationError(r)
    \/ ParseFailure(r)
    \/ RenderFailure(r)
    \/ Send(r)
    \/ SendResolved(r)
    \/ SendRejected(r)

Spec == Init /\ [][Next]_vars

------------------------------------------------------------------------------
\* Properties.

\* Vocabulary of the properties, stated on the state alone.
AllConfigPresent == \A n \in ConfigNames : config[n] # Undefined
SomeConfigAbsent == \E n \in ConfigNames : config[n] = Undefined
Handled(r) == pc[r] \in {"awaiting", "done"}
IsPost(r) == pc[r] # "idle" /\ req[r].method = "POST"
\* The ten properties the handler destructures from req.body.
ReadFields ==
  {"eventType", "timestamp", "page", "userId", "userAgent", "clientIp",
   "referrer", "screenResolution", "browserLanguage", "platform"}
\* The body was decoded to a JSON value other than null.
NonNullBody(r) == req[r].body.kind \in {"string", "number", "array", "object"}
\* None of the ten properties is a value whose conversion to text throws.
ConvertibleFields(r) == \A f \in ReadFields : req[r].body.fields[f].t # "unconvertible"
\* The falsy values an eventType can take.
FalsyValues ==
  {[t |-> "undefined", v |-> ""], [t |-> "null", v |-> ""], [t |-> "string", v |-> ""],
   [t |-> "number", v |-> "0"], [t |-> "boolean", v |-> "false"]}
GenericFallbackSubject == <<"Website Activity: ", "Unknown", " Event">>
ExpectedCors ==
  {<<"Access-Control-Allow-Origin", "*">>,
   <<"Access-Control-Allow-Methods", "POST, OPTIONS">>,
   <<"Access-Control-Allow-Headers", "Content-Type, X-Requested-With">>,
   <<"Access-Control-Max-Age", "86400">>}
ConfigErrorMessage == <<"Server configuration error: Email credentials missing.">>
GenericFailureMessage ==
  <<"Failed to send email notification. Please check server logs for details.">>

\* C1: when one of the five configuration values is absent, a POST request,
\* whatever its body, is answered 500 with the configuration-error message,
\* sendMail is never called and req.body is never read.
C1_MissingConfigFailsClosed ==
  SomeConfigAbsent =>
    \A r \in Requests :
      /\ sendMailCalls[r] = <<>>
      /\ sendOutcome[r] = "none"
      /\ IsPost(r) =>
           /\ ~bodyRead[r]
           /\ pc[r] # "awaiting"
           /\ pc[r] = "done" =>
                /\ Len(responses[r]) = 1
                /\ responses[r][1].status = 500
                /\ responses[r][1].body.status = "error"
                /\ responses[r][1].body.message = ConfigErrorMessage

\* C1 witness: with a configuration value absent, a POST whose body is not
\* decodable and a POST with a well-formed visit payload have both been answered.
C1_Witness ==
  /\ SomeConfigAbsent
  /\ \E r, q \in Requests :
       /\ IsPost(r) /\ pc[r] = "done" /\ req[r].body = BodyInvalidJson
       /\ IsPost(q) /\ pc[q] = "done" /\ req[q].body = FirstVisitBody

\* C2 as stated: every handled POST with complete configuration and a
\* JSON-decodable body has exactly one sendMail call, addressed to the
\* configured recipient, and no request has more than one call.
C2_Original ==
  \A r \in Requests :
    /\ Len(sendMailCalls[r]) <= 1
    /\ (AllConfigPresent /\ IsPost(r) /\ Handled(r) /\ JsonDecodable(req[r].body)) =>
         /\ Len(sendMailCalls[r]) = 1
         /\ sendMailCalls[r][1].to = config.RECIPIENT_EMAIL

\* C2 amended: every handled POST with complete configuration whose body
\* decodes to a JSON value other than null, and none of whose ten destructured
\* properties is a value that cannot be converted to text, has exactly one
\* sendMail call, addressed to the configured recipient; a decodable body that
\* is null or carries such a property is answered with the generic 500 and no
\* call; a rejected send is not retried, and no request of any kind has more
\* than one call.
C2_ExactlyOneSendPerRenderablePost ==
  \A r \in Requests :
    /\ Len(sendMailCalls[r]) <= 1
    /\ sendOutcome[r] = "rejected" => Len(sendMailCalls[r]) = 1
    /\ (AllConfigPresent /\ IsPost(r) /\ Handled(r) /\ NonNullBody(r) /\ ConvertibleFields(r)) =>
         /\ Len(sendMailCalls[r]) = 1
         /\ sendMailCalls[r][1].to = config.RECIPIENT_EMAIL
    /\ (AllConfigPresent /\ IsPost(r) /\ pc[r] = "done" /\ JsonDecodable(req[r].body)
         /\ ~(NonNullBody(r) /\ ConvertibleFields(r))) =>
         /\ sendMailCalls[r] = <<>>
         /\ Len(responses[r]) = 1
         /\ responses[r][1].status = 500
         /\ responses[r][1].body.message = GenericFailureMessage

\* C2 witness: a POST whose body is a JSON string was answered after its one
\* send was rejected, and a POST whose body is JSON null was answered without
\* a send.
C2_Witness ==
  /\ AllConfigPresent
  /\ \E r, q \in Requests :
       /\ IsPost(r) /\ req[r].body = BodyString /\ pc[r] = "done"
       /\ sendOutcome[r] = "rejected" /\ Len(sendMailCalls[r]) = 1
       /\ IsPost(q) /\ req[q].body = BodyNull /\ pc[q] = "done"
       /\ sendMailCalls[q] = <<>>

\* C3: with complete configuration, a POST whose body is malformed or absent,
\* or whose send was rejected, is answered 500 with status "error" and the one
\* fixed failure message; no logged error text appears in the response, and
\* no exception leaves the handler.
C3_GenericFailureResponse ==
  \A r \in Requests :
    /\ ~escaped[r]
    /\ (AllConfigPresent /\ IsPost(r) /\ pc[r] = "done"
         /\ (req[r].body.kind \in {"invalid_json", "undefined"} \/ sendOutcome[r] = "rejected")) =>
         /\ Len(responses[r]) = 1
         /\ responses[r][1].status = 500
         /\ responses[r][1].body.status = "error"
         /\ responses[r][1].body.message = GenericFailureMessage
         /\ Len(caught[r]) = 1
         /\ \A i \in 1..Len(caught[r]) : ~Contains(responses[r][1].body.message, caught[r][i])

\* C3 witness: one POST failed on an undecodable body and another on a
\* rejected send, and both have been answered.
C3_Witness ==
  /\ AllConfigPresent
  /\ \E r, q \in Requests :
       /\ IsPost(r) /\ pc[r] = "done" /\ req[r].body = BodyInvalidJson
       /\ caught[r] = <<InvalidJsonError>>
       /\ IsPost(q) /\ pc[q] = "done" /\ sendOutcome[q] = "rejected"
       /\ \E e \in TransportErrors : caught[q] = <<e>>

\* C4: an OPTIONS request, whatever its body and whether or not the
\* configuration is complete, is answered 204 with an empty body and the CORS
\* headers, and never calls sendMail.
C4_PreflightAlways204 ==
  \A r \in Requests :
    (pc[r] # "idle" /\ req[r].method = "OPTIONS") =>
      /\ sendMailCalls[r] = <<>>
      /\ ~bodyRead[r]
      /\ pc[r] # "awaiting"
      /\ pc[r] = "done" =>
           /\ Len(responses[r]) = 1
           /\ responses[r][1].status = 204
           /\ responses[r][1].body.kind = "empty"
           /\ ExpectedCors \subseteq responses[r][1].headers

\* C4 witness: with a configuration value absent, an OPTIONS request carrying
\* an undecodable body has been answered.
C4_Witness ==
  /\ SomeConfigAbsent
  /\ \E r \in Requests :
       /\ req[r].method = "OPTIONS" /\ req[r].body = BodyInvalidJson /\ pc[r] = "done"

\* C5: a request whose method is neither POST nor OPTIONS, whatever its body
\* and whether or not the configuration is complete, is answered 405 with
\* status "error", and never calls sendMail.
C5_OtherMethods405 ==
  \A r \in Requests :
    (pc[r] # "idle" /\ req[r].method \notin {"POST", "OPTIONS"}) =>
      /\ sendMailCalls[r] = <<>>
      /\ ~bodyRead[r]
      /\ pc[r] # "awaiting"
      /\ pc[r] = "done" =>
           /\ Len(responses[r]) = 1
           /\ responses[r][1].status = 405
           /\ responses[r][1].body.kind = "json"
           /\ responses[r][1].body.status = "error"

\* C5 witness: with a configuration value absent, a GET request has been
\* answered.
C5_Witness ==
  /\ SomeConfigAbsent
  /\ \E r \in Requests : req[r].method = "GET" /\ pc[r] = "done"

\* C6 as stated: in the message handed to sendMail, "first_time_website_visit"
\* gives a subject containing "First-Time Visit", "returning_website_visit" one
\* containing "Returning Visitor", every other eventType string the generic
\* subject made of "Website Activity: " and that string, and only an absent
\* eventType the fallback "Unknown"; no exception leaves the handler.
C6_Original ==
  \A r \in Requests :
    /\ ~escaped[r]
    /\ (AllConfigPresent /\ IsPost(r) /\ Handled(r) /\ Len(sendMailCalls[r]) = 1) =>
         LET ev == req[r].body.fields["eventType"]
             subject == sendMailCalls[r][1].subject
         IN /\ ev = Str("first_time_website_visit") => Contains(subject, "First-Time Visit")
            /\ ev = Str("returning_website_visit") => Contains(subject, "Returning Visitor")
            /\ (/\ ev.t = "string"
                /\ ev.v \notin {"first_time_website_visit", "returning_website_visit"}) =>
                 subject = <<"Website Activity: ", ev.v>>
            /\ ev = Undefined => Contains(subject, "Unknown")

\* C6 amended: "first_time_website_visit" gives a subject containing
\* "First-Time Visit" and "returning_website_visit" one containing "Returning
\* Visitor"; any other truthy eventType that converts to text gives the generic
\* subject made of "Website Activity: " and that text; a falsy eventType
\* (absent, null, the empty string, 0 or false) gives the fallback subject
\* "Website Activity: Unknown Event"; an eventType that cannot be converted to
\* text is answered with the generic 500 and no sendMail call; in every case no
\* exception leaves the handler.
C6_SubjectByEventType ==
  \A r \in Requests :
    /\ ~escaped[r]
    /\ (AllConfigPresent /\ IsPost(r) /\ NonNullBody(r) /\ Handled(r)) =>
         LET ev == req[r].body.fields["eventType"]
         IN /\ ConvertibleFields(r) =>
                 /\ Len(sendMailCalls[r]) = 1
                 /\ LET subject == sendMailCalls[r][1].subject
                    IN /\ ev = Str("first_time_website_visit") =>
                            Contains(subject, "First-Time Visit")
                       /\ ev = Str("returning_website_visit") =>
                            Contains(subject, "Returning Visitor")
                       /\ (/\ ev \notin FalsyValues
                           /\ ev # Str("first_time_website_visit")
                           /\ ev # Str("returning_website_visit")) =>
                            subject = <<"Website Activity: ", ev.v>>
                       /\ ev \in FalsyValues => subject = GenericFallbackSubject
            /\ ev.t = "unconvertible" =>
                 /\ sendMailCalls[r] = <<>>
                 /\ pc[r] = "done"
                 /\ Len(responses[r]) = 1
                 /\ responses[r][1].status = 500
                 /\ responses[r][1].body.message = GenericFailureMessage

\* C6 witness: a POST with an unrecognized event name and a POST with an empty
\* event name have both handed their message to sendMail and been answered.
C6_Witness ==
  \E r, q \in Requests :
    /\ req[r].body = CustomEventBody /\ Len(sendMailCalls[r]) = 1
    /\ sendMailCalls[r][1].subject = <<"Website Activity: ", "signup_click">>
    /\ req[q].body = EmptyEventBody /\ Len(sendMailCalls[q]) = 1
    /\ sendMailCalls[q][1].subject = GenericFallbackSubject
    /\ pc[r] = "done" /\ pc[q] = "done"

\* C7 as stated: for the body {event:"user_login", userId:"u2",
\* loginType:"oauth"} the subject handed to sendMail contains "u2" and
\* "oauth", and the text carries a user-id line and a login-type line.
C7_Original ==
  \A r \in Requests :
    (AllConfigPresent /\ IsPost(r) /\ req[r].body = LoginBody /\ Handled(r)) =>
      /\ Len(sendMailCalls[r]) = 1
      /\ Contains(sendMailCalls[r][1].subject, "u2")
      /\ Contains(sendMailCalls[r][1].subject, "oauth")
      /\ Contains(sendMailCalls[r][1].text, "u2")
      /\ Contains(sendMailCalls[r][1].text, "oauth")

\* C7 amended: for that body the handler, which reads neither event nor
\* loginType, hands sendMail the generic subject "Website Activity: Unknown
\* Event", containing neither "u2" nor "oauth"; the text prints "u2" on its
\* "User ID (Firebase Anonymous)" line and mentions the login type nowhere.
C7_LoginPayloadIsGenericEvent ==
  \A r \in Requests :
    (AllConfigPresent /\ IsPost(r) /\ req[r].body = LoginBody /\ Handled(r)) =>
      /\ Len(sendMailCalls[r]) = 1
      /\ LET subject == sendMailCalls[r][1].subject
             text == sendMailCalls[r][1].text
         IN /\ subject = <<"Website Activity: ", "Unknown", " Event">>
            /\ ~Contains(subject, "u2")
            /\ ~Contains(subject, "oauth")
            /\ \E i \in 1..(Len(text) - 1) :
                 text[i] = "User ID (Firebase Anonymous): " /\ text[i + 1] = "u2"
            /\ ~Contains(text, "oauth")
            /\ ~Contains(text, "user_login")

\* C7 witness: a POST with the login body has been answered 200 after its
\* message was handed to sendMail.
C7_Witness ==
  \E r \in Requests :
    /\ AllConfigPresent /\ IsPost(r) /\ req[r].body = LoginBody
    /\ pc[r] = "done" /\ sendOutcome[r] = "resolved"
    /\ Len(sendMailCalls[r]) = 1

\* C8: every response emitted, on every branch, carries the four CORS
\* headers, and they are set on res before anything is emitted.
C8_CorsOnEveryResponse ==
  \A r \in Requests :
    /\ \A i \in 1..Len(responses[r]) : ExpectedCors \subseteq responses[r][i].headers
    /\ (responses[r] # <<>> \/ pc[r] # "idle") => ExpectedCors \subseteq resHeaders[r]

\* C8 witness: a 200 and a generic 500 have both been emitted.
C8_Witness ==
  \E r, q \in Requests :
    /\ Len(responses[r]) = 1 /\ responses[r][1].status = 200
    /\ Len(responses[q]) = 1 /\ responses[q][1].status = 500
    /\ responses[q][1].body.message = GenericFailureMessage

\* C9: while a send is pending nothing has been emitted; a 200 is emitted only
\* for a request whose send resolved, the failure 500 of a request that
\* reached the send only after the send was rejected; a finished request has
\* emitted exactly one response and no request ever emits more than one.
C9_ResponseOnlyAfterSendSettles ==
  \A r \in Requests :
    /\ Len(responses[r]) <= 1
    /\ pc[r] = "done" => Len(responses[r]) = 1
    /\ pc[r] # "done" => responses[r] = <<>>
    /\ sendOutcome[r] = "pending" => (pc[r] = "awaiting" /\ responses[r] = <<>>)
    /\ \A i \in 1..Len(responses[r]) :
         /\ responses[r][i].status = 200 => sendOutcome[r] = "resolved"
         /\ (responses[r][i].status = 500 /\ sendMailCalls[r] # <<>>) =>
              sendOutcome[r] = "rejected"
    /\ sendOutcome[r] = "resolved" =>
         (Len(responses[r]) = 1 /\ responses[r][1].status = 200)

\* C9 witness: one request is suspended on its send while another has been
\* answered 200 after its send resolved.
C9_Witness ==
  \E r, q \in Requests :
    /\ pc[r] = "awaiting" /\ sendOutcome[r] = "pending" /\ Len(sendMailCalls[r]) = 1
    /\ pc[q] = "done" /\ sendOutcome[q] = "resolved" /\ responses[q][1].status = 200

\* A POST with complete configuration whose body reaches the send: it decodes
\* to a value other than null and every property read converts to text.
ValidPost(r) == AllConfigPresent /\ IsPost(r) /\ NonNullBody(r) /\ ConvertibleFields(r)

\* Number of sendMail calls made by the invocations in S.
RECURSIVE TotalCalls(_)
TotalCalls(S) ==
  IF S = {} THEN 0
  ELSE LET r == CHOOSE x \in S : TRUE
       IN Len(sendMailCalls[r]) + TotalCalls(S \ {r})

\* State part of C10.
C10_OneSendPerRequest ==
  /\ TotalCalls(Requests) = Cardinality({r \in Requests : ValidPost(r) /\ Handled(r)})
  /\ \A r \in Requests :
       /\ (ValidPost(r) /\ Handled(r)) => Len(sendMailCalls[r]) = 1
       /\ (ValidPost(r) /\ pc[r] = "done") =>
            /\ Len(responses[r]) = 1
            /\ responses[r][1].status = 200 <=> sendOutcome[r] = "resolved"
            /\ responses[r][1].status = 500 <=> sendOutcome[r] = "rejected"
            /\ sendOutcome[r] \in {"resolved", "rejected"}
  /\ transporter = CreateTransport(config)

\* C10: requests are neither deduplicated nor coupled: the sendMail calls
\* number exactly the valid POST requests that reached the send, one per
\* request, identical payloads included; each answer is 200 exactly when the
\* request's own send resolved and 500 exactly when it was rejected; and no
\* step changes the configuration or the shared transporter.
C10_IndependentRequests ==
  /\ []C10_OneSendPerRequest
  /\ [][config' = config /\ transporter' = transporter]_vars

\* C10 witness: two POST requests with the identical payload each made one
\* sendMail call; one was answered 200, the other 500.
C10_Witness ==
  \E r, q \in Requests :
    /\ r # q /\ req[r] = req[q] /\ ValidPost(r)
    /\ sendMailCalls[r] = sendMailCalls[q] /\ Len(sendMailCalls[r]) = 1
    /\ pc[r] = "done" /\ responses[r][1].status = 200
    /\ pc[q] = "done" /\ responses[q][1].status = 500

====
